---- MODULE Spec2Model ----
(***************************************************************************)
(* Model of src/src/main.py: the cycle-vector computation                  *)
(* (calculate_vector), the trajectory sampling loop, the current point,    *)
(* the phase classification and the two output steps of main().            *)
(*                                                                         *)
(* Number representation.  Dates are day numbers (day 0 is a Monday).      *)
(* Prices are positive integers.  A deviation is held in units of          *)
(* 1/DevScale percent, a cosine or sine in units of 1/TrigScale, and a     *)
(* vector component (after the division by scale_factor) in units of       *)
(* 1/VecScale, so that strength * cos(rad) / 4.0 is exact on the integers. *)
(* The cosines are taken to three decimals and a float division goes to    *)
(* the nearest unit.                                                       *)
(* A value rounded by round(v, 2) is a sign and a magnitude in hundredths, *)
(* because the float result keeps its sign when it rounds to zero (-0.0).  *)
(***************************************************************************)
EXTENDS Integers, Sequences, FiniteSets, Bags, TLC

VARIABLES pc, main_df, i, history_points, samples, call_date, curr,
          current_point, current_phase, chart, wp_phase, posted

vars == <<pc, main_df, i, history_points, samples, call_date, curr,
          current_point, current_phase, chart, wp_phase, posted>>

----------------------------------------------------------------------------
(* Program constants *)

\* len(data_until) < 200 and iloc[-200:]
MA_WINDOW == 200
\* timedelta(days=365)
WINDOW_DAYS == 365
\* freq='10D'
STEP_DAYS == 10
\* scale_factor = 4.0
SCALE_FACTOR == 4

(* Bounds of the inputs *)

\* the newest calendar day the price source can return
LastDay == 700
\* calendar days covered by the price table, four cases
ShortSpan == 279
EdgeSpan == 280
MidSpan == 300
LongSpan == 690
\* a run of calendar days without rows (market closure), and its distance
\* from LastDay
GapLen == 24
GapAge == 90
\* price level, the size of a price move and the calendar days since it
BasePrice == 10000
SmallBump == 1
BigBump == 400
ShockAge == 60
\* how far before LastDay calculate_vector's target dates reach
TargetBack == 30

DevScale == 10 * 10
TrigScale == 10 * 10 * 10
VecScale == SCALE_FACTOR * DevScale * TrigScale

----------------------------------------------------------------------------
(* SECTORS: code, clock position in half hours (clock * 2), area *)

SECTORS ==
  << [code |-> "1625.T", clock2 |-> 21, area |-> "NW"],
     [code |-> "1626.T", clock2 |-> 23, area |-> "NW"],
     [code |-> "1619.T", clock2 |-> 19, area |-> "NW"],
     [code |-> "1622.T", clock2 |-> 3,  area |-> "NE"],
     [code |-> "1624.T", clock2 |-> 1,  area |-> "NE"],
     [code |-> "1629.T", clock2 |-> 5,  area |-> "NE"],
     [code |-> "1631.T", clock2 |-> 9,  area |-> "SE"],
     [code |-> "1632.T", clock2 |-> 7,  area |-> "SE"],
     [code |-> "1618.T", clock2 |-> 11, area |-> "SE"],
     [code |-> "1621.T", clock2 |-> 15, area |-> "SW"],
     [code |-> "1617.T", clock2 |-> 13, area |-> "SW"],
     [code |-> "1630.T", clock2 |-> 17, area |-> "SW"] >>

\* tickers = [s["code"] for s in SECTORS]
Tickers == { SECTORS[k].code : k \in 1..Len(SECTORS) }

AreaOf ==
  [ code \in Tickers |->
      LET k == CHOOSE j \in 1..Len(SECTORS) : SECTORS[j].code = code
      IN  SECTORS[k].area ]

Areas == { SECTORS[k].area : k \in 1..Len(SECTORS) }

(* PHASES, in the dict's insertion order *)
\* variant: the last entry left out
PHASES_Three ==
  << [name |-> "Recovery",  x_sign |-> 0 - 1, y_sign |-> 1],
     [name |-> "Boom",      x_sign |-> 1,     y_sign |-> 1],
     [name |-> "Slowdown",  x_sign |-> 1,     y_sign |-> 0 - 1] >>

PHASES ==
  << [name |-> "Recovery",  x_sign |-> 0 - 1, y_sign |-> 1],
     [name |-> "Boom",      x_sign |-> 1,     y_sign |-> 1],
     [name |-> "Slowdown",  x_sign |-> 1,     y_sign |-> 0 - 1],
     [name |-> "Recession", x_sign |-> 0 - 1, y_sign |-> 0 - 1] >>

----------------------------------------------------------------------------
(* get_market_data: the 'Close' table the price source returns.  A table  *)
(* is held as the record that describes it (the calendar days it covers,   *)
(* whether the market was closed for GapLen days, the columns present, and *)
(* the area whose prices moved by `bump` over the last ShockAge days) and  *)
(* is read through Index, Columns and Close.                               *)

GapLast == LastDay - GapAge
GapFirst == GapLast - GapLen + 1

Tables ==
  [ span : {ShortSpan, EdgeSpan, MidSpan, LongSpan},
    gap  : BOOLEAN,
    cols : {Tickers, Tickers \ {"1625.T"}},
    hot  : Areas,
    bump : {0, SmallBump, BigBump} ]

\* d in df.index: the weekdays of the covered span, less the closure
HasDate(df, d) ==
  /\ d >= LastDay - df.span + 1
  /\ d <= LastDay
  /\ d % 7 < 5
  /\ ~(df.gap /\ d >= GapFirst /\ d <= GapLast)

\* df.index
Index(df) == { d \in (LastDay - df.span + 1)..LastDay : HasDate(df, d) }

\* df.columns
Columns(df) == df.cols

\* df.loc[d, code]
Close(df, d, code) ==
  IF AreaOf[code] = df.hot /\ d >= LastDay - ShockAge
  THEN BasePrice + df.bump
  ELSE BasePrice

----------------------------------------------------------------------------
(* clock_to_rad and the trigonometry of the clock angles (multiples of     *)
(* 15 degrees), in units of 1/TrigScale                                    *)

\* degree = 90 - (clock_hour * 30)
clock_to_rad(clock2) == 90 - clock2 * 15

CosTable ==
  [ a \in {0, 15, 30, 45, 60, 75, 90} |->
      CASE a = 0  -> 1000
        [] a = 15 -> 966
        [] a = 30 -> 866
        [] a = 45 -> 707
        [] a = 60 -> 500
        [] a = 75 -> 259
        [] a = 90 -> 0 ]

Cos(deg) ==
  LET a == deg % 360
  IN  IF a <= 90 THEN CosTable[a]
      ELSE IF a <= 180 THEN 0 - CosTable[180 - a]
      ELSE IF a <= 270 THEN 0 - CosTable[a - 180]
      ELSE CosTable[360 - a]

Sin(deg) == Cos(deg - 90)

\* float division, to the nearest representable value (b > 0)
FDiv(a, b) == (2 * a + b) \div (2 * b)

----------------------------------------------------------------------------
(* calculate_vector *)

\* the dates of df[df.index <= target_date]
DataUntil(df, target_date) == { d \in Index(df) : d <= target_date }

\* the date of data_until.iloc[-1]
RECURSIVE LastDate(_, _)
LastDate(df, d) == IF HasDate(df, d) THEN d ELSE LastDate(df, d - 1)

\* the first calendar day of data_until.iloc[-n:]: the least day w with at
\* most n rows dated w or later (bisection; lo <= w <= hi throughout)
RECURSIVE TailStart(_, _, _, _)
TailStart(data_until, n, lo, hi) ==
  IF lo >= hi THEN hi
  ELSE LET mid == (lo + hi) \div 2
       IN  IF Cardinality({ e \in data_until : e >= mid }) <= n
           THEN TailStart(data_until, n, lo, mid)
           ELSE TailStart(data_until, n, mid + 1, hi)

\* the dates of data_until.iloc[-n:]
TailRows(data_until, n, last) ==
  LET first == TailStart(data_until, n, 0, last)
  IN  { e \in data_until : e >= first }

\* the sum of one column over the rows `dates` (prices are positive, so the
\* column is a bag of dates and its sum is the bag's cardinality)
ColumnSum(df, code, dates) ==
  BagCardinality([ e \in dates |-> Close(df, e, code) ])

\* deviations = (current_prices - ma200) / ma200 * 100, where
\* current_prices = data_until.iloc[-1] and
\* ma200 = data_until.iloc[-200:].mean() = ColumnSum / 200
Deviations(df, data_until, target_date) ==
  LET last == LastDate(df, target_date)
      rows == TailRows(data_until, MA_WINDOW, last)
  IN  [ c \in Columns(df) |->
          LET s == ColumnSum(df, c, rows)
          IN  FDiv((MA_WINDOW * Close(df, last, c) - s) * 100 * DevScale, s) ]

\* variant: a missing column counts as a deviation of -100 percent
ContributionDefault(deviations, sector) ==
  LET strength == IF sector.code \notin DOMAIN deviations
                  THEN (0 - 100) * DevScale
                  ELSE deviations[sector.code]
      rad == clock_to_rad(sector.clock2)
  IN  << strength * Cos(rad), strength * Sin(rad) >>

\* one pass of the loop over SECTORS: the (x, y) added to the totals
Contribution(deviations, sector) ==
  IF sector.code \notin DOMAIN deviations
  THEN <<0, 0>>
  ELSE LET strength == deviations[sector.code]
           rad == clock_to_rad(sector.clock2)
       IN  << strength * Cos(rad), strength * Sin(rad) >>

RECURSIVE Totals(_, _, _)
Totals(sectors, deviations, k) ==
  IF k = 0 THEN <<0, 0>>
  ELSE LET t == Totals(sectors, deviations, k - 1)
           c == Contribution(deviations, sectors[k])
       IN  << t[1] + c[1], t[2] + c[2] >>

\* variant: <= in place of <
InsufficientHistoryOffByOne(data_until) == Cardinality(data_until) <= MA_WINDOW

\* len(data_until) < 200
InsufficientHistory(data_until) == Cardinality(data_until) < MA_WINDOW

\* the result: none is (None, None); otherwise x, y in units of 1/VecScale
calculate_vector(sectors, df, target_date) ==
  LET data_until == DataUntil(df, target_date)
  IN  IF InsufficientHistory(data_until)
      THEN [none |-> TRUE, x |-> 0, y |-> 0]
      ELSE LET deviations == Deviations(df, data_until, target_date)
               t == Totals(sectors, deviations, Len(sectors))
           IN  [none |-> FALSE, x |-> t[1], y |-> t[2]]

----------------------------------------------------------------------------
(* round(v, 2): sign and magnitude in hundredths, ties to even *)

round2(v) ==
  LET q   == VecScale \div 100
      a   == IF v < 0 THEN 0 - v ELSE v
      lo  == a \div q
      r   == a % q
      mag == IF 2 * r > q \/ (2 * r = q /\ lo % 2 = 1) THEN lo + 1 ELSE lo
  IN  [neg |-> v < 0, mag |-> mag]

\* variant: the coordinates exchanged
PointSwapped(x, y) == [x |-> round2(y), y |-> round2(x)]

\* {"x": round(x, 2), "y": round(y, 2)}
Point(x, y) == [x |-> round2(x), y |-> round2(y)]

\* variant: > in place of >=
SignStrict(v) == IF v > 0 THEN 1 ELSE 0 - 1

\* 1 if v >= 0 else -1
Sign(v) == IF v >= 0 THEN 1 ELSE 0 - 1

\* the loop over PHASES.items(), first match wins, "Unknown" when none
RECURSIVE PhaseFrom(_, _, _)
PhaseFrom(k, c_x_sign, c_y_sign) ==
  IF k > Len(PHASES) THEN "Unknown"
  ELSE IF PHASES[k].x_sign = c_x_sign /\ PHASES[k].y_sign = c_y_sign
       THEN PHASES[k].name
       ELSE PhaseFrom(k + 1, c_x_sign, c_y_sign)

----------------------------------------------------------------------------
(* main *)

NoDate == 0 - 1

NoTable == [span |-> 0, gap |-> FALSE, cols |-> {}, hot |-> "", bump |-> 0]
NoVector == [none |-> TRUE, x |-> 0, y |-> 0]
NoPoint == Point(0, 0)

\* df.index[-1]
IndexLast(df) == LastDate(df, LastDay)

\* variant: one date past the end
date_range_closed(start, end, step) ==
  [ k \in 1..((end - start) \div step + 2) |-> start + (k - 1) * step ]

\* pd.date_range(start=start_date, end=end_date, freq='10D')
date_range(start, end, step) ==
  [ k \in 1..((end - start) \div step + 1) |-> start + (k - 1) * step ]

\* dates, from start_date = end_date - timedelta(days=365)
Dates(df) ==
  LET end_date == IndexLast(df)
      start_date == end_date - WINDOW_DAYS
  IN  date_range(start_date, end_date, STEP_DAYS)

\* variant: past_matches[0] in place of past_matches[-1]
ResolveDateFirst(df, d) ==
  IF ~HasDate(df, d)
  THEN LET past_matches == { e \in Index(df) : e <= d }
       IN  IF past_matches = {} THEN NoDate
           ELSE CHOOSE e \in past_matches : \A g \in past_matches : e <= g
  ELSE d

\* valid_date for the nominal date d; NoDate when the loop continues
ResolveDate(df, d) ==
  IF ~HasDate(df, d)
  THEN LET past_matches == { e \in Index(df) : e <= d }
       IN  IF past_matches = {} THEN NoDate ELSE LastDate(df, d)
  ELSE d

\* variant: a point equal to the last one is dropped
AppendSampleDedup(history, r) ==
  IF ~r.none /\ (history = <<>> \/ history[Len(history)] # Point(r.x, r.y))
  THEN Append(history, Point(r.x, r.y))
  ELSE history

\* if x is not None: history_points.append(...)
AppendSample(history, r) ==
  IF ~r.none THEN Append(history, Point(r.x, r.y)) ELSE history

\* variant: a None result ends the run
AfterSampleAbort(r, k, n) ==
  IF r.none THEN "failed" ELSE IF k = n THEN "current" ELSE "sample"

\* where main goes after pass k of n of the loop, whose call returned r
AfterSample(r, k, n) == IF k = n THEN "current" ELSE "sample"

\* variant: the current point is not appended when it repeats the last point
AppendCurrentDedup(history, point) ==
  IF history # <<>> /\ history[Len(history)] = point
  THEN history
  ELSE Append(history, point)

\* history_points.append(current_point)
AppendCurrent(history, point) == Append(history, point)

Init ==
  /\ pc = "load_secrets"
  /\ main_df = NoTable
  /\ i = 0
  /\ history_points = <<>>
  /\ samples = <<>>
  /\ call_date = NoDate
  /\ curr = NoVector
  /\ current_point = NoPoint
  /\ current_phase = ""
  /\ chart = <<>>
  /\ wp_phase = <<>>
  /\ posted = FALSE

\* config = load_secrets(): sys.exit(1) when the secrets are missing or bad
load_secrets ==
  /\ pc = "load_secrets"
  /\ \E ok \in BOOLEAN : pc' = IF ok THEN "get_market_data" ELSE "exit"
  /\ UNCHANGED <<main_df, i, history_points, samples, call_date, curr,
                 current_point, current_phase, chart, wp_phase, posted>>

\* df = get_market_data(); history_points = []; dates = ...
get_market_data ==
  /\ pc = "get_market_data"
  /\ \E t \in Tables : main_df' = t
  /\ history_points' = <<>>
  /\ i' = 0
  /\ pc' = "sample"
  /\ UNCHANGED <<samples, call_date, curr, current_point, current_phase,
                 chart, wp_phase, posted>>

\* one pass of `for d in dates`; samples logs the pass: the nominal date,
\* the date resolved, whether calculate_vector was called and what it gave
SampleStep ==
  /\ pc = "sample"
  /\ LET df == main_df
         dates == Dates(df)
         d == dates[i + 1]
         valid_date == ResolveDate(df, d)
     IN  /\ IF valid_date = NoDate
            THEN /\ samples' = Append(samples,
                       [d |-> d, valid_date |-> NoDate, called |-> FALSE,
                        r |-> NoVector])
                 /\ pc' = AfterSample([none |-> FALSE], i + 1, Len(dates))
                 /\ UNCHANGED <<history_points, call_date>>
            ELSE LET r == calculate_vector(SECTORS, df, valid_date)
                 IN  /\ history_points' = AppendSample(history_points, r)
                     /\ call_date' = valid_date
                     /\ samples' = Append(samples,
                           [d |-> d, valid_date |-> valid_date,
                            called |-> TRUE, r |-> r])
                     /\ pc' = AfterSample(r, i + 1, Len(dates))
         /\ i' = i + 1
  /\ UNCHANGED <<main_df, curr, current_point, current_phase, chart,
                 wp_phase, posted>>

\* curr_x, curr_y = calculate_vector(df, latest_date); return when None,
\* else current_point and history_points.append(current_point)
CurrentPoint ==
  /\ pc = "current"
  /\ LET df == main_df
         latest_date == IndexLast(df)
         r == calculate_vector(SECTORS, df, latest_date)
     IN  /\ curr' = r
         /\ call_date' = latest_date
         /\ IF r.none
            THEN /\ pc' = "failed"
                 /\ UNCHANGED <<current_point, history_points>>
            ELSE /\ current_point' = Point(r.x, r.y)
                 /\ history_points' =
                      AppendCurrent(history_points, Point(r.x, r.y))
                 /\ pc' = "classify"
  /\ UNCHANGED <<main_df, i, samples, current_phase, chart, wp_phase, posted>>

\* the phase from the signs of curr_x and curr_y
Classify ==
  /\ pc = "classify"
  /\ current_phase' = PhaseFrom(1, Sign(curr.x), Sign(curr.y))
  /\ pc' = "render"
  /\ UNCHANGED <<main_df, i, history_points, samples, call_date, curr,
                 current_point, chart, wp_phase, posted>>

\* create_standalone_html(history_points, current_point, ...) and the write
\* of public/index.html
Render ==
  /\ pc = "render"
  /\ chart' = Append(chart, [history_points |-> history_points,
                             current_point |-> current_point])
  /\ pc' = "publish"
  /\ UNCHANGED <<main_df, i, history_points, samples, call_date, curr,
                 current_point, current_phase, wp_phase, posted>>

\* generate_wp_content(config, last_date_str, current_phase) and the POST,
\* which either succeeds or ends the process with sys.exit(1)
Publish ==
  /\ pc = "publish"
  /\ wp_phase' = Append(wp_phase, current_phase)
  /\ \E ok \in BOOLEAN :
       /\ posted' = ok
       /\ pc' = IF ok THEN "done" ELSE "exit"
  /\ UNCHANGED <<main_df, i, history_points, samples, call_date, curr,
                 current_point, current_phase, chart>>

Next ==
  \/ load_secrets
  \/ get_market_data
  \/ SampleStep
  \/ CurrentPoint
  \/ Classify
  \/ Render
  \/ Publish

Spec == Init /\ [][Next]_vars

----------------------------------------------------------------------------
(* calculate_vector on its own: any table, any target date within          *)
(* TargetBack days of LastDay or one day past it                           *)

TargetDates == (LastDay - TargetBack)..(LastDay + 1)

CalcInit ==
  /\ pc = "call"
  /\ main_df \in Tables
  /\ call_date \in TargetDates
  /\ i = 0
  /\ history_points = <<>>
  /\ samples = <<>>
  /\ curr = NoVector
  /\ current_point = NoPoint
  /\ current_phase = ""
  /\ chart = <<>>
  /\ wp_phase = <<>>
  /\ posted = FALSE

CalcStep ==
  /\ pc = "call"
  /\ curr' = calculate_vector(SECTORS, main_df, call_date)
  /\ pc' = "returned"
  /\ UNCHANGED <<main_df, i, history_points, samples, call_date,
                 current_point, current_phase, chart, wp_phase, posted>>

CalcSpec == CalcInit /\ [][CalcStep]_vars

----------------------------------------------------------------------------
(* Properties *)

\* the number of table dates <= d
RowsUntil(df, d) == Cardinality({ e \in Index(df) : e <= d })

\* the passes of the loop that appended a point
Sampled == { k \in 1..Len(samples) : samples[k].called /\ ~samples[k].r.none }

\* the run of main is over (the exit of load_secrets aside)
RunEnded == pc \in {"done", "failed"} \/ (pc = "exit" /\ main_df # NoTable)

FourPhases == {"Recovery", "Boom", "Slowdown", "Recession"}

\* the sign rule and the phase table, as the specification states them
PhaseOfSigns(x_nonneg, y_nonneg) ==
  CASE ~x_nonneg /\ y_nonneg  -> "Recovery"
    [] x_nonneg /\ y_nonneg   -> "Boom"
    [] x_nonneg /\ ~y_nonneg  -> "Slowdown"
    [] ~x_nonneg /\ ~y_nonneg -> "Recession"

\* v >= 0 on an emitted (rounded) float: true of -0.0
RoundedNonNeg(r) == r.mag = 0 \/ ~r.neg

\* the emitted float is -0.0
NegativeZero(r) == r.neg /\ r.mag = 0

\* C1: calculate_vector returns (None, None) exactly when fewer than 200
\* table dates are <= the target date, and a pair of numbers otherwise.
C1_NoneIffFewerThan200 ==
  pc = "returned" =>
    /\ curr.none <=> RowsUntil(main_df, call_date) < 200
    /\ ~curr.none => curr.x \in Int /\ curr.y \in Int

C1_Witness ==
  /\ pc = "returned"
  /\ RowsUntil(main_df, call_date) = 199
  /\ curr.none

\* C2 as stated: whenever calculate_vector returned None for a date of the
\* run, the latest date included, the run still reaches its output steps.
C2_Original ==
  (RunEnded /\ (pc = "failed" \/ \E k \in 1..Len(samples) :
                                   samples[k].called /\ samples[k].r.none))
    => Len(chart) = 1 /\ Len(wp_phase) = 1

\* C2 amended: a nominal date whose call returns None adds no point and the
\* loop goes on through every date to the output steps; the run ends
\* without output exactly when the call for the latest date returns None.
C2_Amended ==
  /\ i = Len(samples)
  /\ pc \in {"sample", "current"} => Len(history_points) = Cardinality(Sampled)
  /\ pc = "failed" =>
       /\ i = Len(Dates(main_df))
       /\ RowsUntil(main_df, IndexLast(main_df)) < 200
       /\ chart = <<>> /\ wp_phase = <<>>
  /\ (RunEnded /\ pc # "failed") =>
       /\ i = Len(Dates(main_df))
       /\ Len(chart) = 1 /\ Len(wp_phase) = 1

C2_Witness ==
  /\ pc = "done"
  /\ Len(chart) = 1
  /\ \E k \in 1..Len(samples) : samples[k].called /\ samples[k].r.none

\* C3: the phase main computes follows the signs of curr_x and curr_y with
\* zero counted as positive; (0, 0) is Boom.
C3_PhaseBySign ==
  current_phase # "" =>
    /\ ~curr.none
    /\ (curr.x < 0 /\ curr.y >= 0) => current_phase = "Recovery"
    /\ (curr.x >= 0 /\ curr.y >= 0) => current_phase = "Boom"
    /\ (curr.x >= 0 /\ curr.y < 0) => current_phase = "Slowdown"
    /\ (curr.x < 0 /\ curr.y < 0) => current_phase = "Recession"

C3_Witness ==
  /\ current_phase = "Boom"
  /\ ~curr.none
  /\ curr.x = 0 /\ curr.y = 0

\* C4: pass k of the loop handles the nominal date start + 10 (k - 1); the
\* date given to calculate_vector is that date when it is a table date,
\* else the greatest table date before it, and there is no call when no
\* table date is <= the nominal date.
C4_ResolvedDate ==
  samples # <<>> =>
    LET k == Len(samples)
        s == samples[k]
        prior == { e \in Index(main_df) : e <= s.d }
    IN  /\ s.d = IndexLast(main_df) - 365 + 10 * (k - 1)
        /\ s.called <=> prior # {}
        /\ s.called =>
             /\ s.valid_date \in prior
             /\ \A e \in prior : e <= s.valid_date
             /\ pc \in {"sample", "current"} => call_date = s.valid_date

C4_Witness ==
  /\ Len(samples) >= 2
  /\ ~samples[1].called
  /\ samples[Len(samples)].called
  /\ samples[Len(samples)].valid_date < samples[Len(samples)].d

\* C5: the trajectory handed to the renderer is non-empty, holds one point
\* more than the loop appended, and ends with the current point, which is
\* the rounded vector of the latest table date.
C5_EndsAtCurrent ==
  chart # <<>> =>
    LET h  == chart[1].history_points
        cv == calculate_vector(SECTORS, main_df, IndexLast(main_df))
    IN  /\ Len(h) >= 1
        /\ Len(h) = Cardinality(Sampled) + 1
        /\ h[Len(h)] = chart[1].current_point
        /\ ~cv.none
        /\ chart[1].current_point = [x |-> round2(cv.x), y |-> round2(cv.y)]

C5_Witness ==
  /\ chart # <<>>
  /\ Len(chart[1].history_points) >= 2
  /\ chart[1].history_points[Len(chart[1].history_points) - 1]
       = chart[1].current_point

\* C6: the loop appends at most floor(365/10) + 1 = 37 points, one per
\* pass that got a vector, and their resolved dates never decrease.
C6_AtMost37NonDecreasing ==
  /\ pc \in {"sample", "current"} =>
       /\ Len(history_points) = Cardinality(Sampled)
       /\ Len(history_points) <= 37
  /\ \A j \in Sampled : \A k \in Sampled :
       j < k => samples[j].valid_date <= samples[k].valid_date

C6_Witness ==
  /\ pc = "current"
  /\ Len(history_points) = 37

\* C7: when the loop is over, the trajectory holds exactly one point for
\* every pass whose resolved date has at least 200 table dates of history,
\* in pass order, so passes resolving to the same date give repeated points.
C7_NoDeduplication ==
  pc = "current" =>
    LET kept == SelectSeq(samples,
                  LAMBDA s : s.called /\ RowsUntil(main_df, s.valid_date) >= 200)
    IN  history_points =
          [ k \in 1..Len(kept) |->
              [x |-> round2(kept[k].r.x), y |-> round2(kept[k].r.y)] ]

C7_Witness ==
  /\ pc = "current"
  /\ \E k \in 1..(Len(samples) - 1) :
       /\ k \in Sampled /\ k + 1 \in Sampled
       /\ samples[k].valid_date = samples[k + 1].valid_date
  /\ Len(history_points) = Cardinality(Sampled)

\* C8: the phase is never computed from a None result, and the label given
\* to the publisher is one of the four phase names.
C8_NeverUnknown ==
  /\ pc = "classify" => ~curr.none
  /\ current_phase # "" => ~curr.none /\ current_phase \in FourPhases
  /\ \A k \in 1..Len(wp_phase) : wp_phase[k] \in FourPhases

C8_Witness ==
  /\ Len(wp_phase) = 1
  /\ wp_phase[1] = "Recession"

\* C9: for a table without the column of instrument X, calculate_vector
\* returns what it returns with X removed from SECTORS.
C9_MissingInstrumentSkipped ==
  pc = "returned" =>
    \A X \in Tickers \ Columns(main_df) :
      curr = calculate_vector(SelectSeq(SECTORS, LAMBDA s : s.code # X),
                              main_df, call_date)

C9_Witness ==
  /\ pc = "returned"
  /\ ~curr.none
  /\ Tickers \ Columns(main_df) # {}
  /\ \E X \in Tickers \ Columns(main_df) : AreaOf[X] = main_df.hot
  /\ main_df.bump = BigBump
  /\ curr.x # 0

\* C10 as stated: the sign rule applied to the emitted (rounded) current
\* point gives the phase main reports.
C10_Original ==
  chart # <<>> =>
    current_phase = PhaseOfSigns(RoundedNonNeg(current_point.x),
                                 RoundedNonNeg(current_point.y))

\* C10 amended: the same, unless a coordinate of the emitted point is -0.0,
\* a negative value rounded to zero.
C10_Amended ==
  (chart # <<>> /\ ~NegativeZero(current_point.x)
                /\ ~NegativeZero(current_point.y)) =>
    current_phase = PhaseOfSigns(RoundedNonNeg(current_point.x),
                                 RoundedNonNeg(current_point.y))

C10_Witness ==
  /\ chart # <<>>
  /\ current_point.x.neg /\ current_point.x.mag > 0
  /\ ~current_point.y.neg /\ current_point.y.mag > 0
  /\ current_phase = "Recovery"

====
